---- MODULE Spec2Model ----
(***************************************************************************)
(* A model of notifsystem.py, a command-line notification scheduler built  *)
(* on at(1).  One run of the program (parse, check_arguments, dispatch) is *)
(* one atomic step: the program is single-threaded and exits after one     *)
(* command.  The clock is read once per run (the runs last milliseconds).  *)
(*                                                                         *)
(* Python strings are sequences of one-character strings, compared the way *)
(* Python compares them (by character code, a proper prefix first), so     *)
(* that every string comparison and string/number conversion of the code  *)
(* is computed and not assumed.                                            *)
(***************************************************************************)
EXTENDS Integers, Sequences, FiniteSets, TLC

VARIABLES
    now,            \* the wall clock: [Y, m, d, H, M, S, us]
    atq,            \* at(1)'s queue: the numbers of the jobs still pending
    seq,            \* at(1)'s job counter: the number the next job gets
    jobfileExists,  \* os.path.exists(JOBFILE)
    jobfile,        \* the lines of JOBFILE, each ending in "\n"
    argv,           \* the parsed arguments of the last run
    result          \* what the last run did: exit status, output, calls

vars == <<now, atq, seq, jobfileExists, jobfile, argv, result>>

(***************************************************************************)
(* Strings.                                                                *)
(***************************************************************************)

\* The characters the model uses, in character-code order.
Alphabet ==
    <<"\t", "\n", " ", "&", ",", "-", "0", "1", "2", "3", "4", "5", "6", "7", "8", "9",
      ":", "A", "B", "C", "D", "E", "F", "G", "H", "I", "J", "K", "L", "M",
      "N", "O", "P", "Q", "R", "S", "T", "U", "V", "W", "X", "Y", "Z", "a",
      "b", "c", "d", "e", "f", "g", "h", "i", "j", "k", "l", "m", "n", "o",
      "p", "q", "r", "s", "t", "u", "v", "w", "x", "y", "z", "|">>

\* ord(c), up to the choice of the characters kept.
Codes == [c \in {Alphabet[i] : i \in 1..Len(Alphabet)} |->
             CHOOSE i \in 1..Len(Alphabet) : Alphabet[i] = c]

Ord(c) == Codes[c]

DigitChars == <<"0", "1", "2", "3", "4", "5", "6", "7", "8", "9">>

IsDigit(c) == c \in {"0", "1", "2", "3", "4", "5", "6", "7", "8", "9"}

DigitValues == [c \in {DigitChars[i] : i \in 1..10} |->
                   (CHOOSE i \in 1..10 : DigitChars[i] = c) - 1]

DigitVal(c) == DigitValues[c]

AllDigits(s) == \A i \in 1..Len(s) : IsDigit(s[i])

\* Python's None (an absent option).
None == <<"None">>

\* s[i:j] with 0-based i, j >= 0 as in Python (an end past the string is cut).
Slice(s, i, j) ==
    LET end == IF j > Len(s) THEN Len(s) ELSE j
    IN IF end <= i THEN << >> ELSE SubSeq(s, i + 1, end)

\* s[i:]
From(s, i) == IF i >= Len(s) THEN << >> ELSE SubSeq(s, i + 1, Len(s))

\* a < b on Python strings.
RECURSIVE StrLess(_, _)
StrLess(a, b) ==
    IF b = << >> THEN FALSE
    ELSE IF a = << >> THEN TRUE
    ELSE IF a[1] = b[1] THEN StrLess(Tail(a), Tail(b))
    ELSE Ord(a[1]) < Ord(b[1])

StrLeq(a, b) == a = b \/ StrLess(a, b)

\* int(s) for a string of decimal digits (leading zeros allowed).
RECURSIVE int(_)
int(s) ==
    IF s = << >> THEN 0
    ELSE 10 * int(SubSeq(s, 1, Len(s) - 1)) + DigitVal(s[Len(s)])

\* str(n) for an integer.
RECURSIVE StrNat(_)
StrNat(n) ==
    IF n < 10 THEN <<DigitChars[n + 1]>>
    ELSE StrNat(n \div 10) \o <<DigitChars[(n % 10) + 1]>>

str(n) == IF n < 0 THEN <<"-">> \o StrNat(-n) ELSE StrNat(n)

\* str(n).zfill(w), strftime's zero-padded fields.
RECURSIVE ZFill(_, _)
ZFill(s, w) == IF Len(s) >= w THEN s ELSE ZFill(<<"0">> \o s, w)

Pad2(n) == ZFill(StrNat(n), 2)

Pad4(n) == ZFill(StrNat(n), 4)

(***************************************************************************)
(* The calendar and the clock (datetime).                                  *)
(***************************************************************************)

IsLeap(y) == (y % 4 = 0 /\ y % 100 # 0) \/ y % 400 = 0

DaysInMonth(y, m) ==
    IF m = 2 THEN (IF IsLeap(y) THEN 29 ELSE 28)
    ELSE IF m \in {4, 6, 9, 11} THEN 30 ELSE 31

\* datetime(...) accepts exactly these dates.
ValidYMD(y, m, d) ==
    /\ y \in 1..9999
    /\ m \in 1..12
    /\ d \in 1..DaysInMonth(y, m)

\* t + datetime.timedelta(days=1)
PlusOneDay(t) ==
    IF t.d < DaysInMonth(t.Y, t.m) THEN [t EXCEPT !.d = t.d + 1]
    ELSE IF t.m < 12 THEN [t EXCEPT !.m = t.m + 1, !.d = 1]
    ELSE [t EXCEPT !.Y = t.Y + 1, !.m = 1, !.d = 1]

\* t.strftime('%H%M%S'), '%Y%m%d', '%m%d', '%Y', '%Y-%m-%d %H:%M:%S'
HHMMSS(t) == Pad2(t.H) \o Pad2(t.M) \o Pad2(t.S)

YYYYMMDD(t) == Pad4(t.Y) \o Pad2(t.m) \o Pad2(t.d)

MMDD(t) == Pad2(t.m) \o Pad2(t.d)

Isoformat(t) ==
    Pad4(t.Y) \o <<"-">> \o Pad2(t.m) \o <<"-">> \o Pad2(t.d) \o <<" ">>
    \o Pad2(t.H) \o <<":">> \o Pad2(t.M) \o <<":">> \o Pad2(t.S)

SecondOfDay(t) == t.H * 3600 + t.M * 60 + t.S

(***************************************************************************)
(* Validation of the arguments.                                            *)
(***************************************************************************)

\* strptime(s, '%H%M') / '%H%M%S' succeeds on a string of 4 / 6 characters
\* exactly when they are digits that split two by two into an hour up to 23,
\* a minute and a second up to 59.
valid_time(time_string) ==
    IF time_string = None THEN FALSE
    ELSE IF Len(time_string) = 4 THEN
        /\ AllDigits(time_string)
        /\ int(Slice(time_string, 0, 2)) <= 23
        /\ int(Slice(time_string, 2, 4)) <= 59
    ELSE IF Len(time_string) = 6 THEN
        /\ AllDigits(time_string)
        /\ int(Slice(time_string, 0, 2)) <= 23
        /\ int(Slice(time_string, 2, 4)) <= 59
        /\ int(Slice(time_string, 4, 6)) <= 59
    ELSE FALSE

\* strptime(s, '%Y%m%d') / '%m%d' (the year is 1900 when none is given).
valid_date(date_string) ==
    IF date_string = None THEN FALSE
    ELSE IF Len(date_string) = 8 THEN
        /\ AllDigits(date_string)
        /\ ValidYMD(int(Slice(date_string, 0, 4)), int(Slice(date_string, 4, 6)),
                    int(Slice(date_string, 6, 8)))
    ELSE IF Len(date_string) = 4 THEN
        /\ AllDigits(date_string)
        /\ ValidYMD(1900, int(Slice(date_string, 0, 2)), int(Slice(date_string, 2, 4)))
    ELSE FALSE

\* True, or None (false) when the date is after today or has four digits.
past_date(date_string, clock) ==
    IF Len(date_string) = 4 THEN FALSE
    ELSE StrLeq(date_string, YYYYMMDD(clock))

(***************************************************************************)
(* The schedule calculator.  `clock` is what datetime.today() returns.     *)
(***************************************************************************)

parse_time_to_seconds(time_string) ==
    LET s == IF Len(time_string) = 4 THEN time_string \o <<"0", "0">>
             ELSE time_string
    IN int(Slice(s, 0, 2)) * 3600 + int(Slice(s, 2, 4)) * 60 + int(From(s, 4))

\* A variant that forgets to subtract the seconds already elapsed.
change_if_targeting_current_minute_no_subtract(at_time, seconds_offset, clock) ==
    LET time_string_now == HHMMSS(clock) IN
    IF /\ StrLess(time_string_now, at_time \o seconds_offset)
       /\ at_time = Slice(time_string_now, 0, 4)
    THEN <<(<<"n", "o", "w">>), str(int(seconds_offset))>>
    ELSE <<at_time, seconds_offset>>

\* The pair (at_time, seconds_offset), both strings.
change_if_targeting_current_minute(at_time, seconds_offset, clock) ==
    LET time_string_now == HHMMSS(clock) IN
    IF /\ StrLess(time_string_now, at_time \o seconds_offset)
       /\ at_time = Slice(time_string_now, 0, 4)
    THEN <<(<<"n", "o", "w">>),
           str(int(seconds_offset) - int(From(time_string_now, 4)))>>
    ELSE <<at_time, seconds_offset>>

\* The year-prefixed string, or None (the function falls off its end).
prepend_year(time_string, clock) ==
    LET mmdd_now == MMDD(clock)
        yyyy_next == str(clock.Y + 1)
    IN IF StrLeq(Slice(time_string, 0, 4), mmdd_now)
       THEN yyyy_next \o time_string
       ELSE None

\* The result of prepend_year is discarded by the caller (line 191), so an
\* 8-character string stays 8 characters long and reaches the last return.
at_time_and_seconds_offset(time_string, clock) ==
    IF Len(time_string) = 12 THEN
        <<(<<" ", "-", "t", " ">>) \o time_string, (<<"0", "0">>)>>
    ELSE IF Len(time_string) = 4 THEN
        <<time_string, (<<"0", "0">>)>>
    ELSE change_if_targeting_current_minute(
             Slice(time_string, 0, 4), From(time_string, 4), clock)

\* strptime(s, ' -t %Y%m%d%H%M%S') on " -t " and twelve digits: after the hour
\* only two digits are left for %M%S, which get one each.
StrptimeDashT(s) ==
    [Y |-> int(Slice(s, 4, 8)), m |-> int(Slice(s, 8, 10)),
     d |-> int(Slice(s, 10, 12)), H |-> int(Slice(s, 12, 14)),
     M |-> int(Slice(s, 14, 15)), S |-> int(Slice(s, 15, 16))]

get_scheduled_time(time_string, seconds_offset, clock) ==
    LET HH_now == Pad2(clock.H)
        MM_now == Pad2(clock.M)
        rolled == IF StrLess(time_string, HH_now \o MM_now)
                  THEN PlusOneDay(clock) ELSE clock
        placed == IF time_string # <<"n", "o", "w">>
                  THEN [rolled EXCEPT !.H = int(Slice(time_string, 0, 2)),
                                      !.M = int(Slice(time_string, 2, 4))]
                  ELSE rolled
    IN IF Slice(time_string, 0, 4) = <<" ", "-", "t", " ">>
       THEN Isoformat(StrptimeDashT(time_string))
       ELSE Isoformat([placed EXCEPT !.S = int(seconds_offset)])

\* time.strftime('%H%M%S', time.localtime(int(time.time()) + time_delta)),
\* with no change of the UTC offset in between.
add_delta(time_string, clock) ==
    LET time_delta == parse_time_to_seconds(time_string)
        target == (SecondOfDay(clock) + time_delta) % 86400
    IN Pad2(target \div 3600) \o Pad2((target % 3600) \div 60) \o Pad2(target % 60)

(***************************************************************************)
(* The ledger file.                                                        *)
(***************************************************************************)

Header ==
    <<"J", "o", "b", "I", "D", " ", "|", " ", "S", "c", "h", "e", "d", "u",
      "l", "e", "d", " ", "d", "a", "t", "e", " ", "&", " ", "t", "i", "m",
      "e", " ", "|", " ", "S", "e", "c", "o", "n", "d", "s", " ", "o", "f",
      "f", "s", "e", "t", " ", "|", " ", "P", "r", "i", "o", "r", "i", "t",
      "i", "z", "e", "d", " ", "|", " ", "M", "e", "s", "s", "a", "g", "e",
      "\n">>

Bar == <<" ", "|", " ">>

\* A variant that opens the file in write mode, losing what it held.
write_job_to_file_truncating(jobID, scheduled_time, seconds_offset, prioritize, message) ==
    LET header == IF ~jobfileExists THEN <<Header>> ELSE << >>
        job_line == jobID \o Bar \o scheduled_time \o Bar \o seconds_offset
                    \o Bar \o (IF prioritize THEN <<"Y", "e", "s">>
                                             ELSE <<"N", "o">>)
                    \o Bar \o message \o <<"\n">>
    IN header \o <<job_line>>

\* The lines of JOBFILE after the call (the file is opened in append mode).
write_job_to_file(jobID, scheduled_time, seconds_offset, prioritize, message) ==
    LET header == IF ~jobfileExists THEN <<Header>> ELSE << >>
        job_line == jobID \o Bar \o scheduled_time \o Bar \o seconds_offset
                    \o Bar \o (IF prioritize THEN <<"Y", "e", "s">>
                                             ELSE <<"N", "o">>)
                    \o Bar \o message \o <<"\n">>
    IN jobfile \o header \o <<job_line>>

(***************************************************************************)
(* at(1), atq(1) and atrm(1): what they print.  These are not part of the  *)
(* program; only the parts of their output the program reads are kept.     *)
(***************************************************************************)

\* The stderr of `echo ... | at <time>`: the job's number when at accepts the
\* job (the date at prints after "at" is left out), an error otherwise.
AtStderr(accepted, n) ==
    IF accepted THEN
        <<"w", "a", "r", "n", "i", "n", "g", ":", " ", "c", "o", "m", "m", "a",
          "n", "d", "s", " ", "w", "i", "l", "l", " ", "b", "e", " ", "e", "x",
          "e", "c", "u", "t", "e", "d", " ", "u", "s", "i", "n", "g", " ", "/",
          "b", "i", "n", "/", "s", "h", "\n", "j", "o", "b", " ">>
        \o str(n) \o <<" ", "a", "t", "\n">>
    ELSE <<"G", "a", "r", "b", "l", "e", "d", " ", "t", "i", "m", "e", "\n">>

\* One line of atq's stdout per pending job: the number, a tab, the rest.
AtqLine(n) == str(n) \o <<"\t", "a", "\n">>

\* The stderr of `atrm <id>`.
AtrmStderr(jobID, queue) ==
    IF AllDigits(jobID) /\ jobID # << >> /\ int(jobID) \in queue THEN << >>
    ELSE <<"C", "a", "n", "n", "o", "t", " ", "f", "i", "n", "d", " ", "j", "o",
           "b", "i", "d", " ">> \o jobID \o <<"\n">>

(***************************************************************************)
(* Searching and splitting strings (re.search, str.split, `in`).           *)
(***************************************************************************)

RECURSIVE DigitRun(_)
DigitRun(s) ==
    IF s = << >> \/ ~IsDigit(s[1]) THEN << >>
    ELSE <<s[1]>> \o DigitRun(Tail(s))

RECURSIVE SearchJob(_)
SearchJob(s) ==
    IF Len(s) < 5 THEN None
    ELSE IF Slice(s, 0, 4) = <<"j", "o", "b", " ">> /\ IsDigit(s[5])
    THEN <<"j", "o", "b", " ">> \o DigitRun(From(s, 4))
    ELSE SearchJob(Tail(s))

RECURSIVE SearchDigits(_)
SearchDigits(s) ==
    IF s = << >> THEN None
    ELSE IF IsDigit(s[1]) THEN DigitRun(s)
    ELSE SearchDigits(Tail(s))

RECURSIVE Contains(_, _)
Contains(s, sub) ==
    IF Len(s) < Len(sub) THEN FALSE
    ELSE IF SubSeq(s, 1, Len(sub)) = sub THEN TRUE
    ELSE Contains(Tail(s), sub)

RECURSIVE SplitFrom(_, _, _)
SplitFrom(s, sep, cur) ==
    IF s = << >> THEN <<cur>>
    ELSE IF Len(s) >= Len(sep) /\ SubSeq(s, 1, Len(sep)) = sep
    THEN <<cur>> \o SplitFrom(From(s, Len(sep)), sep, << >>)
    ELSE SplitFrom(Tail(s), sep, Append(cur, s[1]))

Split(s, sep) == SplitFrom(s, sep, << >>)

\* "".join(fields)
RECURSIVE Join(_)
Join(fields) == IF fields = << >> THEN << >> ELSE fields[1] \o Join(Tail(fields))

\* s.rstrip()
RECURSIVE RStrip(_)
RStrip(s) ==
    IF s # << >> /\ s[Len(s)] \in {" ", "\n", "\t"}
    THEN RStrip(SubSeq(s, 1, Len(s) - 1))
    ELSE s

(***************************************************************************)
(* Listing.  The clock read by get_time_left has microseconds; the         *)
(* scheduled instants read from the file have none.                        *)
(***************************************************************************)

\* The first tab-separated field of every line atq prints.
pending_jobIDs == {Split(AtqLine(n), <<"\t">>)[1] : n \in atq}

\* jobfile.readlines()[1:]; the caller sees FileNotFoundError when the file
\* does not exist.
job_entries == Tail(jobfile)

\* date.toordinal()
Ordinal(t) ==
    LET y == t.Y - 1
        before == [k \in 1..12 |-> IF k < t.m THEN DaysInMonth(t.Y, k) ELSE 0]
    IN y * 365 + y \div 4 - y \div 100 + y \div 400
       + before[1] + before[2] + before[3] + before[4] + before[5] + before[6]
       + before[7] + before[8] + before[9] + before[10] + before[11] + before[12]
       + t.d

\* The pair (time_left, time_left_seconds): str(delta) without its
\* microseconds, and str(delta.seconds).
get_time_left(date_time_obj, clock) ==
    LET whole == (Ordinal(date_time_obj) - Ordinal(clock)) * 86400
                 + SecondOfDay(date_time_obj) - SecondOfDay(clock)
                 - (IF clock.us > 0 THEN 1 ELSE 0)
        secs == whole % 86400
        days == (whole - secs) \div 86400
        hms == str(secs \div 3600) \o <<":">> \o Pad2((secs % 3600) \div 60)
               \o <<":">> \o Pad2(secs % 60)
        delta == IF days = 0 THEN hms
                 ELSE str(days) \o (IF days \in {1, -1}
                                    THEN <<" ", "d", "a", "y", ",", " ">>
                                    ELSE <<" ", "d", "a", "y", "s", ",", " ">>)
                      \o hms
        time_left == IF Len(delta) = 7 THEN <<"0">> \o delta ELSE delta
    IN <<time_left, str(secs)>>

\* strptime(job_time, '%Y-%m-%d %H:%M:%S') on a timestamp written by
\* get_scheduled_time.
StrptimeIso(s) ==
    [Y |-> int(Slice(s, 0, 4)), m |-> int(Slice(s, 5, 7)),
     d |-> int(Slice(s, 8, 10)), H |-> int(Slice(s, 11, 13)),
     M |-> int(Slice(s, 14, 16)), S |-> int(Slice(s, 17, 19))]

\* The entry [jobID, time_when, time_left, time_left_seconds, prioritize,
\* job_message]: Python's job[3], job[4], job[5] are entry[4], entry[5],
\* entry[6] here.
job_line_into_output_fields(job, clock) ==
    LET fields == Split(job, Bar)
        date_time_obj == StrptimeIso(fields[2])
        left == get_time_left(date_time_obj, clock)
    IN <<fields[1], Isoformat(date_time_obj), left[1], left[2], fields[4],
         RStrip(Join(SubSeq(fields, 5, Len(fields))))>>

get_job_ID(job_line) == SearchDigits(job_line)

\* A variant that lists every line of the file, pending or not.
KeepAll(lines, active_IDs) == lines

\* The lines of the file whose job is still in at's queue, in file order.
RECURSIVE Keep(_, _)
Keep(lines, active_IDs) ==
    IF lines = << >> THEN << >>
    ELSE (IF get_job_ID(lines[1]) \in active_IDs THEN <<lines[1]>> ELSE << >>)
         \o Keep(Tail(lines), active_IDs)

get_jobs_to_list == Keep(job_entries, pending_jobIDs)

\* list.sort(key=lambda job: job[k]): stable, ascending on strings.
RECURSIVE InsertAscending(_, _, _)
InsertAscending(sorted, e, k) ==
    IF sorted = << >> THEN <<e>>
    ELSE IF StrLess(e[k], sorted[1][k]) THEN <<e>> \o sorted
    ELSE <<sorted[1]>> \o InsertAscending(Tail(sorted), e, k)

RECURSIVE SortAscending(_, _)
SortAscending(entries, k) ==
    IF entries = << >> THEN << >>
    ELSE InsertAscending(SortAscending(SubSeq(entries, 1, Len(entries) - 1), k),
                         entries[Len(entries)], k)

\* list.sort(key=lambda job: job[k], reverse=True): descending, and still
\* stable (equal keys keep their order).
RECURSIVE InsertDescending(_, _, _)
InsertDescending(sorted, e, k) ==
    IF sorted = << >> THEN <<e>>
    ELSE IF StrLess(sorted[1][k], e[k]) THEN <<e>> \o sorted
    ELSE <<sorted[1]>> \o InsertDescending(Tail(sorted), e, k)

RECURSIVE SortDescending(_, _)
SortDescending(entries, k) ==
    IF entries = << >> THEN << >>
    ELSE InsertDescending(SortDescending(SubSeq(entries, 1, Len(entries) - 1), k),
                          entries[Len(entries)], k)

\* The primary sort of get_notification_entries (lines 369-372).
PrimarySort(entries, alphabetical) ==
    IF alphabetical THEN SortAscending(entries, 6)
    ELSE SortAscending(entries, 4)

\* A variant that forgets reverse=True.
PrioritySortAscending(entries) == SortAscending(entries, 5)

\* The second pass (line 374): prioritized rows first.
PrioritySort(entries) == SortDescending(entries, 5)

get_notification_entries(alphabetical, clock) ==
    LET jobs_to_list == get_jobs_to_list
        entries == [i \in 1..Len(jobs_to_list) |->
                       job_line_into_output_fields(jobs_to_list[i], clock)]
    IN PrioritySort(PrimarySort(entries, alphabetical))

(***************************************************************************)
(* One run of the program.                                                 *)
(***************************************************************************)

\* args as parse_arguments returns it.
Args(operation, add_mode, time, sound, prioritize, uptime, message, alphabetical, id) ==
    [operation |-> operation, add_mode |-> add_mode, time |-> time,
     sound |-> sound, prioritize |-> prioritize, uptime |-> uptime,
     message |-> message, alphabetical |-> alphabetical, id |-> id]

\* What a run leaves behind: its exit status, what it printed (the table of a
\* listing apart), the exception that ended it, the external commands it ran,
\* the clock it read, at's queue as the run found it and, for an add, the
\* schedule it computed.
Result(status, stdout, exception, calls, table, at_time, seconds_offset) ==
    [status |-> status, stdout |-> stdout, exception |-> exception,
     calls |-> calls, table |-> table, clock |-> now, queue |-> atq,
     at_time |-> at_time, seconds_offset |-> seconds_offset]

\* The message check_add prints before sys.exit(), "" when it returns.
check_add(args, clock) ==
    LET mode == args.add_mode IN
    IF (mode = "at" \/ mode = "in") /\ ~valid_time(args.time)
    THEN "Invalid or missing time specification!"
    ELSE IF mode = "on" /\ ~valid_date(args.time)
    THEN "Invalid or missing date specification!"
    ELSE IF mode = "on" /\ past_date(args.time, clock)
    THEN "The date should be a future date!"
    ELSE IF args.message = None
    THEN "Missing message specification!"
    ELSE ""

\* The message check_list_del prints before sys.exit(), "" when it returns.
check_list_del(args) ==
    IF args.time # None \/ args.sound \/ args.uptime # 0
    THEN (IF args.operation = "list"
          THEN "Extraneous options specified with the list operation!"
          ELSE "Extraneous options specified with the del operation!")
    ELSE IF args.operation = "del" /\ args.id = None
    THEN "ID of the notification to cancel not specified!"
    ELSE ""

check_arguments(args, clock) ==
    IF args.operation = "add" THEN check_add(args, clock)
    ELSE check_list_del(args)

\* sys.exit() without an argument: the process ends with status 0.
SysExit(message) ==
    /\ result' = Result(0, message, "SystemExit", << >>, << >>, None, None)
    /\ UNCHANGED <<atq, seq, jobfileExists, jobfile>>

\* add_at: `accepted` says whether at(1) took the job; the command that
\* command_to_execute builds is recorded by its target and its sleep offset,
\* the two parts of it the schedule depends on.  When the search for
\* "job <digits>" finds nothing, .group() raises AttributeError on None and
\* the run ends with a traceback (status 1) before the file is written.
add_at(time_string, prioritize, message, accepted) ==
    LET pair == at_time_and_seconds_offset(time_string, now)
        at_time == pair[1]
        seconds_offset == pair[2]
        output == AtStderr(accepted, seq)
        found == SearchJob(output)
        calls == <<(<<"at", at_time, seconds_offset>>)>>
    IN /\ atq' = IF accepted THEN atq \cup {seq} ELSE atq
       /\ seq' = IF accepted THEN seq + 1 ELSE seq
       /\ IF found = None
          THEN /\ result' = Result(1, "", "AttributeError", calls, << >>,
                                   at_time, seconds_offset)
               /\ UNCHANGED <<jobfileExists, jobfile>>
          ELSE LET jobID == From(found, 4)
                   scheduled_time == get_scheduled_time(at_time, seconds_offset, now)
               IN /\ jobfile' = write_job_to_file(jobID, scheduled_time,
                                                  seconds_offset, prioritize, message)
                  /\ jobfileExists' = TRUE
                  /\ result' = Result(0, "", "", calls, << >>,
                                      at_time, seconds_offset)

add_in(time_string, prioritize, message, accepted) ==
    add_at(add_delta(time_string, now), prioritize, message, accepted)

add_on(date_string, prioritize, message, accepted) ==
    add_at(date_string \o <<"0", "0", "0", "0">>, prioritize, message, accepted)

add_notification(mode, time_string, prioritize, message, accepted) ==
    IF mode = "at" THEN add_at(time_string, prioritize, message, accepted)
    ELSE IF mode = "in" THEN add_in(time_string, prioritize, message, accepted)
    ELSE add_on(time_string, prioritize, message, accepted)

\* list_notifications: atq runs first; open(JOBFILE) raises FileNotFoundError
\* when no add has created the file yet.
list_notifications(alphabetical) ==
    /\ IF ~jobfileExists
       THEN result' = Result(1, "", "FileNotFoundError", <<(<<"atq">>)>>, << >>,
                             None, None)
       ELSE LET notification_entries ==
                    get_notification_entries(alphabetical, now)
            IN result' = Result(0,
                                IF notification_entries # << >> THEN "table"
                                ELSE "No scheduled notifications.",
                                "", <<(<<"atq">>)>>, notification_entries,
                                None, None)
    /\ UNCHANGED <<atq, seq, jobfileExists, jobfile>>

\* delete_notification: the number itself is not part of the recorded
\* message, it is args.id.
delete_notification(jobID) ==
    LET output == AtrmStderr(jobID, atq)
        cannot == <<"C", "a", "n", "n", "o", "t", " ", "f", "i", "n", "d", " ",
                    "j", "o", "b", "i", "d">>
    IN /\ atq' = IF output = << >> THEN atq \ {int(jobID)} ELSE atq
       /\ result' = Result(0,
                           IF Contains(output, cannot)
                           THEN "Notification does not exist."
                           ELSE IF output = << >>
                           THEN "Notification with ID <id> deleted."
                           ELSE "",
                           "", <<(<<"atrm", jobID>>)>>, << >>, None, None)
       /\ UNCHANGED <<seq, jobfileExists, jobfile>>

dispatch(args, accepted) ==
    IF args.operation = "add"
    THEN add_notification(args.add_mode, args.time, args.prioritize,
                          args.message, accepted)
    ELSE IF args.operation = "list"
    THEN list_notifications(args.alphabetical)
    ELSE delete_notification(args.id)

\* __main__: check_arguments, then dispatch.
Main(args, accepted) ==
    LET message == check_arguments(args, now) IN
    /\ argv' = args
    /\ now' = now
    /\ IF message # "" THEN SysExit(message)
       ELSE dispatch(args, accepted)

(***************************************************************************)
(* The command lines and clocks the model runs the program on.             *)
(***************************************************************************)

\* at(1) stops taking jobs once it has handed out this many numbers.
MaxJobs == 2

Clock(Y, m, d, H, M, S, us) ==
    [Y |-> Y, m |-> m, d |-> d, H |-> H, M |-> M, S |-> S, us |-> us]

\* a is strictly before b (the model's clocks differ by seconds).
Earlier(a, b) ==
    \/ Ordinal(a) < Ordinal(b)
    \/ Ordinal(a) = Ordinal(b) /\ SecondOfDay(a) < SecondOfDay(b)

Clocks == {Clock(2026, 11, 2, 12, 0, 30, 0), Clock(2026, 12, 31, 23, 59, 50, 250000)}

AddArgs ==
    {Args("add", "at", <<"1", "2", "0", "1">>, FALSE, p, 0, <<"b">>, FALSE, None) :
        p \in BOOLEAN}
    \cup {Args("add", "at", <<"1", "2", "0", "2", "1", "0">>, FALSE, FALSE, 0,
               <<"a", " ", "|", " ", "c">>, FALSE, None),
          Args("add", "in", <<"0", "0", "0", "0", "0", "5">>, TRUE, FALSE, 5,
               <<"b">>, FALSE, None),
          Args("add", "at", <<"2", "5", "0", "0">>, FALSE, FALSE, 0, None, FALSE, None)}

ListArgs ==
    {Args("list", "at", None, FALSE, FALSE, 0, None, a, None) : a \in BOOLEAN}

DelArgs ==
    {Args("del", "at", None, FALSE, FALSE, 0, None, FALSE, id) :
        id \in {<<"1">>, <<"7">>}}

\* Before the first run.
NoArgs == Args("none", "at", None, FALSE, FALSE, 0, None, FALSE, None)

(***************************************************************************)
(* The system: runs of the program, at(1) and the clock.                   *)
(***************************************************************************)

Init ==
    /\ now \in Clocks
    /\ atq = {}
    /\ seq = 1
    /\ jobfileExists = FALSE
    /\ jobfile = << >>
    /\ argv = NoArgs
    /\ result = Result(0, "", "", << >>, << >>, None, None)

Add ==
    /\ seq <= MaxJobs
    /\ \E args \in AddArgs, accepted \in BOOLEAN : Main(args, accepted)

List == \E args \in ListArgs : Main(args, TRUE)

Del == \E args \in DelArgs : Main(args, TRUE)

\* A pending job leaves at's queue: it ran, or atrm was used outside the
\* program.
Expire ==
    /\ \E n \in atq : atq' = atq \ {n}
    /\ UNCHANGED <<now, seq, jobfileExists, jobfile, argv, result>>

\* Time passes.
Tick ==
    /\ \E t \in Clocks : Earlier(now, t) /\ now' = t
    /\ UNCHANGED <<atq, seq, jobfileExists, jobfile, argv, result>>

Next == Add \/ List \/ Del \/ Expire \/ Tick

Spec == Init /\ [][Next]_vars

(***************************************************************************)
(* One run of the program on a new system, for any clock and command line: *)
(* the specification under which the argument checks and the schedule      *)
(* calculator are examined.                                                *)
(***************************************************************************)

Hours == {0, 12, 23}

Minutes == {0, 59}

Seconds == {0, 1, 9, 10, 29, 30, 31, 59}

Dates == {<<2026, 11, 2>>, <<2026, 12, 31>>, <<2028, 2, 28>>}

OnceClocks ==
    {Clock(date[1], date[2], date[3], H, M, S, 0) :
        date \in Dates, H \in Hours, M \in Minutes, S \in Seconds}

OnceTimes ==
    {Pad2(H) \o Pad2(M) : H \in Hours, M \in Minutes}
    \cup {Pad2(H) \o Pad2(M) \o Pad2(S) : H \in Hours, M \in Minutes, S \in Seconds}

BadTimes ==
    {<<"2", "4", "0", "0">>, <<"1", "2", "6", "0">>, <<"1", "2", "0", "0", "6", "0">>,
     <<"1", "2", "0">>, <<"1", "2", "0", "0", "0">>, <<"1", "2", "a", "0">>, None}

OnceDates ==
    {<<"1", "2", "2", "5">>, <<"1", "1", "0", "2">>, <<"0", "1", "0", "1">>,
     <<"2", "0", "2", "6", "1", "2", "2", "5">>, <<"2", "0", "2", "7", "0", "1", "0", "1">>,
     <<"2", "0", "2", "8", "0", "2", "2", "9">>, <<"2", "0", "2", "6", "1", "1", "0", "3">>}

BadDates ==
    {<<"0", "2", "3", "0">>, <<"0", "2", "2", "9">>, <<"1", "3", "0", "1">>,
     <<"2", "0", "2", "7", "0", "2", "2", "9">>, <<"2", "0", "2", "0", "0", "1", "0", "1">>,
     <<"2", "0", "2", "6", "1", "1", "0", "2">>, <<"1", "2", "2">>, None}

OnceAddArgs ==
    {Args("add", mode, t, FALSE, FALSE, 0, <<"b">>, FALSE, None) :
        mode \in {"at", "in"}, t \in OnceTimes \cup BadTimes}
    \cup {Args("add", "on", t, FALSE, TRUE, 0, <<"b">>, FALSE, None) :
        t \in OnceDates \cup BadDates}
    \cup {Args("add", mode, <<"1", "2", "0", "0">>, TRUE, FALSE, 5, None, FALSE, None) :
        mode \in {"at", "in", "on"}}

OnceListDelArgs ==
    {Args(op, "at", t, s, FALSE, u, None, FALSE, id) :
        op \in {"list", "del"}, t \in {<<"1", "2", "0", "0">>, None}, s \in BOOLEAN,
        u \in {0, 5}, id \in {<<"1">>, None}}

InitOnce ==
    /\ now \in OnceClocks
    /\ atq = {}
    /\ seq = 1
    /\ jobfileExists = FALSE
    /\ jobfile = << >>
    /\ argv = NoArgs
    /\ result = Result(0, "", "", << >>, << >>, None, None)

AddOnce ==
    /\ argv = NoArgs
    /\ \E args \in OnceAddArgs, accepted \in BOOLEAN : Main(args, accepted)

ListDelOnce ==
    /\ argv = NoArgs
    /\ \E args \in OnceListDelArgs : Main(args, TRUE)

NextOnce == AddOnce \/ ListDelOnce

SpecOnce == InitOnce /\ [][NextOnce]_vars

(***************************************************************************)
(* The properties.                                                         *)
(***************************************************************************)

\* The k-th " | "-separated field of a ledger row, and the last row.
RowField(row, k) == Split(row, Bar)[k]

LastRow == jobfile[Len(jobfile)]

\* The last run was an add in `mode` that reached at(1) and wrote its row.
Added(mode) ==
    /\ argv.operation = "add"
    /\ argv.add_mode = mode
    /\ result.calls # << >>
    /\ result.exception = ""

\* The last run was a listing that got as far as printing.
Listed ==
    /\ argv.operation = "list"
    /\ result.calls # << >>
    /\ result.exception = ""

\* t plus n seconds, n below one day.
PlusSeconds(t, n) ==
    LET total == SecondOfDay(t) + n
        day == IF total >= 86400 THEN PlusOneDay(t) ELSE t
        s == total % 86400
    IN [day EXCEPT !.H = s \div 3600, !.M = (s % 3600) \div 60, !.S = s % 60]

\* C1: every step leaves the ledger file as it is or appends exactly one row
\* to it (after the header, when the file is new), and it appends only in an
\* add run whose job at(1) accepted, the row carrying the number at(1) gave;
\* so a submission with no "job <digits>" in its output, a list and a del
\* leave the file unchanged, and no written line is altered, moved or removed.
C1_LedgerAppendOnly ==
    [][\/ jobfile' = jobfile /\ jobfileExists' = jobfileExists
       \/ /\ argv'.operation = "add"
          /\ result'.exception = ""
          /\ seq' = seq + 1
          /\ jobfileExists'
          /\ jobfile' = jobfile \o (IF jobfileExists THEN << >> ELSE <<Header>>)
                                \o <<jobfile'[Len(jobfile')]>>
          /\ RowField(jobfile'[Len(jobfile')], 1) = str(seq)]_vars

\* C1's case: a submission that at(1) refused, made when the ledger already
\* held a row, and the row is still there.
C1_Witness ==
    /\ argv.operation = "add"
    /\ result.exception = "AttributeError"
    /\ Len(jobfile) = 2
    /\ RowField(LastRow, 1) = <<"1">>

\* C2: a listing shows exactly the ledger rows whose job is in at's queue at
\* that moment, each once and with the row's own fields; the rows of the jobs
\* that have run or were removed stay in the file and are not shown.
C2_ListedAreLiveRows ==
    Listed =>
        LET rows == Tail(jobfile)
            live == {i \in 1..Len(rows) : int(RowField(rows[i], 1)) \in result.queue}
        IN /\ Len(result.table) = Cardinality(live)
           /\ \A i \in live : \E k \in 1..Len(result.table) :
                 /\ result.table[k][1] = RowField(rows[i], 1)
                 /\ result.table[k][2] = RowField(rows[i], 2)
                 /\ result.table[k][5] = RowField(rows[i], 4)

\* C2's case: two rows in the ledger, one of the two jobs gone from at's
\* queue, and the listing shows the other one alone.
C2_Witness ==
    /\ Listed
    /\ Len(jobfile) = 3
    /\ result.queue = {2}
    /\ Len(result.table) = 1
    /\ result.table[1][1] = <<"2">>

\* The key of the primary sort for the run's mode.
PrimaryKey(entry) == IF argv.alphabetical THEN entry[6] ELSE entry[4]

\* C3: in a listing, in either sort mode, no row with Prioritized = No comes
\* before a row with Prioritized = Yes, and two rows of the same priority
\* stand in the order of the primary sort: ascending in its key as the program
\* compares it, and in file order when the keys are equal.
C3_PrioritizedFirst ==
    Listed =>
        \A i, j \in 1..Len(result.table) :
            i < j =>
                LET a == result.table[i]
                    b == result.table[j]
                IN /\ ~(a[5] = <<"N", "o">> /\ b[5] = <<"Y", "e", "s">>)
                   /\ a[5] = b[5] => ~StrLess(PrimaryKey(b), PrimaryKey(a))
                   /\ a[5] = b[5] /\ PrimaryKey(a) = PrimaryKey(b)
                        => int(a[1]) < int(b[1])

\* C3's case: an alphabetical listing of two rows in which the prioritized row
\* comes first although its message sorts after the other row's.
C3_Witness ==
    /\ Listed
    /\ argv.alphabetical
    /\ Len(result.table) = 2
    /\ result.table[1][5] = <<"Y", "e", "s">>
    /\ result.table[2][5] = <<"N", "o">>
    /\ StrLess(result.table[2][6], result.table[1][6])

\* C4 (the claim as stated): in a default-mode listing, of two rows of the
\* same priority the one with the smaller number of seconds left comes first.
C4_SoonestFirst ==
    (Listed /\ ~argv.alphabetical) =>
        \A i, j \in 1..Len(result.table) :
            (i < j /\ result.table[i][5] = result.table[j][5])
                => int(result.table[i][4]) <= int(result.table[j][4])

\* C5: for an at-mode add of HHMMSS, when HHMM is the clock's minute and SS is
\* greater than the clock's seconds, the job is given to at for "now" with the
\* offset SS minus the clock's seconds (1..59); otherwise it is given to at
\* for HHMM with the offset SS.
C5_SameMinute ==
    (argv.operation = "add" /\ argv.add_mode = "at" /\ result.calls # << >>
     /\ Len(argv.time) = 6) =>
        LET HH == int(Slice(argv.time, 0, 2))
            MM == int(Slice(argv.time, 2, 4))
            SS == int(Slice(argv.time, 4, 6))
            clock == result.clock
        IN IF HH = clock.H /\ MM = clock.M /\ SS > clock.S
           THEN /\ result.at_time = <<"n", "o", "w">>
                /\ result.seconds_offset = str(SS - clock.S)
                /\ SS - clock.S \in 1..59
                /\ result.calls = <<(<<"at", (<<"n", "o", "w">>), str(SS - clock.S)>>)>>
           ELSE /\ result.at_time = Slice(argv.time, 0, 4)
                /\ result.seconds_offset = Slice(argv.time, 4, 6)

\* C5's case: at 12:00:30 a notification is asked for 12:00:59, and at gets
\* "now" with 29 seconds.
C5_Witness ==
    /\ argv.operation = "add"
    /\ argv.add_mode = "at"
    /\ argv.time = <<"1", "2", "0", "0", "5", "9">>
    /\ result.clock.H = 12 /\ result.clock.M = 0 /\ result.clock.S = 30
    /\ result.at_time = <<"n", "o", "w">>
    /\ result.seconds_offset = <<"2", "9">>

\* C6 (the claim as stated): after an at-mode add the row's timestamp is the
\* requested HH:MM:SS (SS = 00 for HHMM), today, or tomorrow when that time of
\* day is before the clock's.
C6_ScheduledAt ==
    Added("at") =>
        LET t == argv.time
            clock == result.clock
            asked == [clock EXCEPT !.H = int(Slice(t, 0, 2)),
                                   !.M = int(Slice(t, 2, 4)),
                                   !.S = int(Slice(t, 4, 6))]
            fires == IF SecondOfDay(asked) < SecondOfDay(clock)
                     THEN PlusOneDay(asked) ELSE asked
        IN RowField(LastRow, 2) = Isoformat(fires)

\* C7 (the claim as stated): after an in-mode add the row's timestamp is the
\* clock plus H hours, M minutes and S seconds.
C7_InDelay ==
    Added("in") =>
        LET t == argv.time
            delaySeconds == int(Slice(t, 0, 2)) * 3600 + int(Slice(t, 2, 4)) * 60
                            + int(Slice(t, 4, 6))
        IN RowField(LastRow, 2) = Isoformat(PlusSeconds(result.clock, delaySeconds))

\* C8 (the claim as stated): after an on-mode add, at was given midnight of
\* the date as " -t YYYYMMDD0000" with offset 0, and the row's timestamp is
\* 00:00:00 of that date; MMDD gets next year when the day is not after today
\* and this year otherwise.
C8_OnDate ==
    Added("on") =>
        LET t == argv.time
            clock == result.clock
            year == IF Len(t) = 8 THEN int(Slice(t, 0, 4))
                    ELSE IF StrLeq(t, MMDD(clock)) THEN clock.Y + 1 ELSE clock.Y
            mmdd == IF Len(t) = 8 THEN From(t, 4) ELSE t
            midnight == Clock(year, int(Slice(mmdd, 0, 2)), int(Slice(mmdd, 2, 4)), 0, 0, 0, 0)
        IN /\ result.at_time = <<" ", "-", "t", " ">> \o YYYYMMDD(midnight)
                               \o <<"0", "0", "0", "0">>
           /\ int(result.seconds_offset) = 0
           /\ RowField(LastRow, 2) = Isoformat(midnight)

\* The command lines C9 names: an add with a bad or missing time (at, in), a
\* bad or missing date or an eight-digit date not after today (on), or no
\* message; a list or del with a time, the sound flag or an uptime; a del
\* with no id.
FailsValidation(args, clock) ==
    \/ /\ args.operation = "add"
       /\ \/ args.add_mode \in {"at", "in"} /\ ~valid_time(args.time)
          \/ args.add_mode = "on" /\ ~valid_date(args.time)
          \/ /\ args.add_mode = "on"
             /\ Len(args.time) = 8
             /\ ~StrLess(YYYYMMDD(clock), args.time)
          \/ args.message = None
    \/ /\ args.operation \in {"list", "del"}
       /\ \/ args.time # None
          \/ args.sound
          \/ args.uptime # 0
          \/ args.operation = "del" /\ args.id = None

\* C9 (the claim as stated): a run whose arguments fail validation ends with a
\* non-zero exit status, having called no external command and written
\* nothing.
C9_AbortNonZero ==
    [][(argv' # argv /\ FailsValidation(argv', now)) =>
          /\ result'.status # 0
          /\ result'.calls = << >>
          /\ jobfile' = jobfile
          /\ atq' = atq]_vars

\* C10 (the claim as stated): a listing made when no ledger row is live (no
\* file yet, or every recorded job gone from at's queue) prints "No scheduled
\* notifications." and does not fail.
C10_NothingScheduled ==
    (/\ argv.operation = "list"
     /\ ~FailsValidation(argv, result.clock)
     /\ \A i \in 2..Len(jobfile) : int(RowField(jobfile[i], 1)) \notin result.queue)
        => /\ result.exception = ""
           /\ result.stdout = "No scheduled notifications."

====
